---- MODULE Spec2Model ----
(***************************************************************************)
(* A model of Document_Email_Automation.py: DocumentGenerator splits a     *)
(* multi-page PDF into one document per CSV row and writes an updated CSV; *)
(* EmailSender loads that CSV and drafts or sends one Outlook message per  *)
(* row.  Text values (cells, paths, file names, the message body) are      *)
(* sequences of tokens, so that concatenation, os.path.join, str.replace   *)
(* and str.format are computed and not assumed.                            *)
(***************************************************************************)
EXTENDS Integers, Sequences, FiniteSets, TLC

\* ------------------------------------------------------------- bounds
MaxRows == 2        \* longest roster table
MaxPages == 2       \* longest source PDF
MaxRuns == 2        \* calls of generate_Documents

\* ------------------------------------------------------------- text
Range(s) == {s[k] : k \in DOMAIN s}

BACKSLASH == "\\"

\* Python's None for the optional sample_size argument: the empty option.
None == <<>>

\* ------------------------------------------------------------- inputs
\* The CSV header of the input table (the "CSV file format" comment).
InputFields ==
    <<"Team Name", "Organisation", "Division", "Award", "Mentor_Name", "Mentor_Email">>

MkRow(team, division, mentor, email) ==
    [f \in Range(InputFields) |->
        CASE f = "Team Name" -> <<team>>
          [] f = "Organisation" -> <<"School">>
          [] f = "Division" -> <<division>>
          [] f = "Award" -> <<"First">>
          [] f = "Mentor_Name" -> <<mentor>>
          [] OTHER -> <<email>>]

\* Rows a roster may hold; two of them share their Team Name.
RowSet ==
    { MkRow("Alpha", "Lightweight", "Pat", "pat@x"),
      MkRow("Alpha", "Open", "Sam", "sam@x"),
      MkRow("Beta", "Open", "Kim", "kim@x") }

SeqsUpTo(S, n) == UNION {[1..k -> S] : k \in 0..n}

\* A PDF is its sequence of pages; page k of every source is the value k.
Pdf(n) == [k \in 1..n |-> k]

\* output_folder arguments: relative, nested with "/", absolute Windows style.
Folders == { <<"out">>, <<"dir", "/", "out">>, <<"C:", BACKSLASH, "out">> }

DocTypes == { <<"Award">>, <<"Participation">> }

Platforms == { "nt", "posix" }

\* The arguments main gives EmailSender.
email_subject == <<"Your document">>
sender_name == <<"Margaux">>
sender_title == <<"Chair">>
organisation == <<"RCJA">>
email_body_template ==
    <<"Dear ", "{mentor_name}", ", division ", "{division}", " -- ",
      "{sender_name}", "{sender_title}", "{organisation}">>

Cwd(platform) == IF platform = "nt" THEN <<"D:", BACKSLASH, "work">> ELSE <<"/", "work">>

\* ------------------------------------------------------------- paths
\* The characters the platform's os.path treats as separators, and os.sep.
Seps(platform) == IF platform = "nt" THEN {"/", BACKSLASH} ELSE {"/"}
OsSep(platform) == IF platform = "nt" THEN BACKSLASH ELSE "/"

IsDrive(tok) == tok \in {"C:", "D:"}

\* os.path.isabs for the paths of this model (drive + separator on Windows,
\* a leading "/" on POSIX).
IsAbs(platform, p) ==
    IF platform = "nt"
    THEN Len(p) >= 2 /\ IsDrive(p[1]) /\ p[2] \in Seps(platform)
    ELSE Len(p) >= 1 /\ p[1] = "/"

\* os.path.join(a, b) for a relative b: b alone when a is empty, no separator
\* added after a trailing separator (or a bare drive on Windows), else os.sep.
OsPathJoin(platform, a, b) ==
    IF a = <<>> THEN b
    ELSE IF a[Len(a)] \in Seps(platform) \/ (platform = "nt" /\ IsDrive(a[Len(a)]))
         THEN a \o b
         ELSE a \o <<OsSep(platform)>> \o b

\* str.replace(old, new) on single-character tokens.
Replace(x, old, new) == [k \in DOMAIN x |-> IF x[k] = old THEN new ELSE x[k]]

\* os.path.abspath: a relative path is joined to the working directory; on
\* Windows normpath then turns every "/" into a backslash.
Abspath(platform, p) ==
    LET q == IF IsAbs(platform, p) THEN p ELSE OsPathJoin(platform, Cwd(platform), p)
    IN IF platform = "nt" THEN Replace(q, "/", BACKSLASH) ELSE q

\* The file the operating system resolves a path to.
FsKey(platform, p) == Abspath(platform, p)

\* f"{name}_{self.document_type}.pdf"
OutputFileName_indexed(name, doctype, idx) == name \o <<"_", ToString(idx), "_">> \o doctype \o <<".pdf">>
OutputFileName(name, doctype, idx) == name \o <<"_">> \o doctype \o <<".pdf">>

\* f"{self.document_type}_Documents_Updated.csv"
UpdatedCsvName(doctype) == doctype \o <<"_Documents_Updated.csv">>

\* ------------------------------------------------------------- csv
\* csv.DictWriter: the header, then each row's cells in header order.
CsvWrite(header, dicts) ==
    [header |-> header,
     lines |-> [k \in DOMAIN dicts |-> [c \in DOMAIN header |-> dicts[k][header[c]]]]]

ColumnOf(header, f) == CHOOSE c \in DOMAIN header : header[c] = f

\* csv.DictReader / pandas.read_csv: each line as a mapping from the header.
CsvRead(csv) ==
    [k \in DOMAIN csv.lines |->
        [f \in Range(csv.header) |-> csv.lines[k][ColumnOf(csv.header, f)]]]

\* row["File Path"] = output_path
WithFilePath(row, path) ==
    [f \in DOMAIN row \cup {"File Path"} |-> IF f = "File Path" THEN path ELSE row[f]]

\* ------------------------------------------------------------- messages
\* No Outlook item is under construction.
NoMail == [To |-> <<>>, Subject |-> <<>>, Body |-> <<>>, Attachments |-> <<>>, open |-> FALSE]

\* outlook.CreateItem(0): a blank mail item.
BlankItem == [To |-> <<>>, Subject |-> <<>>, Body |-> <<>>, Attachments |-> <<>>, open |-> TRUE]

\* str.format(**kw): every placeholder token is replaced by its argument, in
\* one pass; the other tokens are copied.
RECURSIVE Format(_, _)
Format(template, kw) ==
    IF template = <<>> THEN <<>>
    ELSE LET t == Head(template)
         IN (IF t \in DOMAIN kw THEN kw[t] ELSE <<t>>) \o Format(Tail(template), kw)

\* The keyword arguments create_drafts and send_emails give str.format.
FormatArgs_swapped(row) ==
    [p \in {"{mentor_name}", "{division}", "{sender_name}", "{sender_title}", "{organisation}"} |->
        CASE p = "{mentor_name}" -> row["Division"]
          [] p = "{division}" -> row["Mentor_Name"]
          [] p = "{sender_name}" -> sender_name
          [] p = "{sender_title}" -> sender_title
          [] OTHER -> organisation]
FormatArgs(row) ==
    [p \in {"{mentor_name}", "{division}", "{sender_name}", "{sender_title}", "{organisation}"} |->
        CASE p = "{mentor_name}" -> row["Mentor_Name"]
          [] p = "{division}" -> row["Division"]
          [] p = "{sender_name}" -> sender_name
          [] p = "{sender_title}" -> sender_title
          [] OTHER -> organisation]

\* lambda x: x.replace('\\', '/')
NormalizePath_identity(x) == x
NormalizePath(x) == Replace(x, BACKSLASH, "/")

\* "if sample_size:" is true of a given, non-zero size.
Truthy(a) == a # None /\ a[1] # 0

\* The sample_size arguments tried: None and 0..MaxRows.
SampleSizes == {None} \cup {<<k>> : k \in 0..MaxRows}

\* DataFrame.sample(n=k): k distinct rows in a random order.
Samples(n, k) == {s \in [1..k -> 1..n] : \A a, b \in 1..k : a # b => s[a] # s[b]}

\* DataFrame.iterrows() of the whole table: every row, in table order.
AllRows(n) == [k \in 1..n |-> k]

\* Nothing catches the exception of Attachments.Add: the method is left at the
\* row that failed.
AfterAttachFailure_skipRow(pos) == [pc |-> "m_loop", j |-> pos + 1]
AfterAttachFailure(pos) == [pc |-> "raised", j |-> pos]

\* mail.Attachments.Add(filepath)
Attached_nothing(item, filepath) == item
Attached(item, filepath) == [item EXCEPT !.Attachments = Append(@, filepath)]

\* ------------------------------------------------------------- state
VARIABLES
    platform,        \* the os.path flavour the interpreter runs with
    pdf_in,          \* the pages of the file at pdf_path
    csv_in,          \* the rows of the file at csv_file
    output_folder,   \* DocumentGenerator.output_folder
    document_type,   \* DocumentGenerator.document_type
    dirs,            \* directories that exist
    files,           \* the file system: resolved path -> content
    pc,              \* position of the running call, "idle" between calls
    err,             \* the uncaught exception that ended the program, or "none"
    rows,            \* generate_Documents: rows
    fieldnames,      \* generate_Documents: fieldnames
    total_pages,     \* generate_Documents: total_pages
    i,               \* generate_Documents: rows already handled by the loop
    updated_csv,     \* the path generate_Documents returned
    runs,            \* calls of generate_Documents started
    writes,          \* resolved paths written by the current call, in order
    created,         \* every document written: run, row index, name, path, page
    snapshot,        \* the file system when the first run returned
    removed,         \* the environment has deleted an output document
    loaded,          \* an EmailSender has been constructed
    data,            \* EmailSender.data: the rows of the loaded table
    method,          \* the EmailSender method called last, "none" before the first
    sample_size,     \* create_drafts: the sample_size argument
    selected,        \* the row indices the running loop iterates, in order
    j,               \* rows the running loop has finished
    mail,            \* the Outlook item under construction
    outbox,          \* items Outlook has saved as drafts or sent, in order
    callStart        \* length of outbox when the running call started

genVars == <<rows, fieldnames, total_pages, i, updated_csv, runs, writes, created, snapshot>>
envVars == <<platform, pdf_in, csv_in, output_folder, document_type>>
fsVars == <<dirs, files, removed>>
mailVars == <<loaded, data, method, sample_size, selected, j, mail, outbox, callStart>>
vars == <<envVars, fsVars, pc, err, genVars, mailVars>>

Init ==
    /\ platform \in Platforms
    /\ pdf_in \in {Pdf(n) : n \in 0..MaxPages}
    /\ csv_in \in SeqsUpTo(RowSet, MaxRows)
    /\ output_folder \in Folders
    /\ document_type \in DocTypes
    /\ dirs = {}
    /\ files = <<>>
    /\ pc = "idle"
    /\ err = "none"
    /\ rows = <<>>
    /\ fieldnames = <<>>
    /\ total_pages = 0
    /\ i = 0
    /\ updated_csv = <<>>
    /\ runs = 0
    /\ writes = <<>>
    /\ created = <<>>
    /\ snapshot = <<>>
    /\ removed = FALSE
    /\ loaded = FALSE
    /\ data = <<>>
    /\ method = "none"
    /\ sample_size = None
    /\ selected = <<>>
    /\ j = 0
    /\ mail = NoMail
    /\ outbox = <<>>
    /\ callStart = 0

\* open(path, "w"/"wb") and write: the file is created or replaced.
FileWritten(fs, key, content) ==
    [k \in DOMAIN fs \cup {key} |-> IF k = key THEN content ELSE fs[k]]

\* os.path.exists(self.output_folder)
FolderExists_never(existing, key) == FALSE
FolderExists(existing, key) == key \in existing

\* if len(rows) != total_pages
CountMismatch_never(n_rows, n_pages) == FALSE
CountMismatch(n_rows, n_pages) == n_rows # n_pages

\* reader.pages[i], 0-based
PageAt_first(pages, idx) == pages[1]
PageAt(pages, idx) == pages[idx + 1]

\* ------------------------------------------------------------- generate_Documents
\* The call starts (the main section generates before it constructs the
\* EmailSender; maxRuns bounds the calls): the output folder is created unless
\* it exists.  os.makedirs of a directory that exists is FileExistsError.
EnsureFolder(maxRuns) ==
    /\ pc = "idle"
    /\ ~loaded
    /\ runs < maxRuns
    /\ runs' = runs + 1
    /\ writes' = <<>>
    /\ LET key == FsKey(platform, output_folder)
       IN IF FolderExists(dirs, key)
          THEN /\ dirs' = dirs
               /\ pc' = "g_read"
               /\ err' = err
          ELSE IF key \in dirs
               THEN /\ dirs' = dirs
                    /\ pc' = "raised"
                    /\ err' = "FileExistsError"
               ELSE /\ dirs' = dirs \cup {key}
                    /\ pc' = "g_read"
                    /\ err' = err
    /\ UNCHANGED <<envVars, files, removed, rows, fieldnames, total_pages, i,
                   updated_csv, created, snapshot, mailVars>>

\* The CSV is read into rows, "File Path" is added to the header, the PDF is loaded.
ReadInputs ==
    /\ pc = "g_read"
    /\ rows' = csv_in
    /\ fieldnames' = InputFields \o <<"File Path">>
    /\ total_pages' = Len(pdf_in)
    /\ i' = 0
    /\ pc' = "g_check"
    /\ UNCHANGED <<envVars, fsVars, err, updated_csv, runs, writes, created, snapshot, mailVars>>

\* The row count is compared with the page count; a mismatch raises ValueError.
CheckCounts ==
    /\ pc = "g_check"
    /\ IF CountMismatch(Len(rows), total_pages)
       THEN pc' = "raised" /\ err' = "ValueError: count mismatch"
       ELSE pc' = "g_loop" /\ err' = err
    /\ UNCHANGED <<envVars, fsVars, genVars, mailVars>>

\* One iteration of the loop: page i is written under the name of row i and
\* the path is stored in the row.  An index past the last page is IndexError.
WritePage ==
    /\ pc = "g_loop"
    /\ i < Len(rows)
    /\ IF i + 1 > Len(pdf_in)
       THEN /\ pc' = "raised"
            /\ err' = "IndexError"
            /\ UNCHANGED <<fsVars, genVars>>
       ELSE LET row == rows[i + 1]
                name == row["Team Name"]
                output_file_name == OutputFileName(name, document_type, i)
                output_path == OsPathJoin(platform, output_folder, output_file_name)
                key == FsKey(platform, output_path)
                page == PageAt(pdf_in, i)
            IN /\ files' = FileWritten(files, key, [kind |-> "pdf", pages |-> <<page>>])
               /\ writes' = Append(writes, key)
               /\ rows' = [rows EXCEPT ![i + 1] = WithFilePath(row, output_path)]
               /\ created' = Append(created,
                      [run |-> runs, index |-> i, name |-> name,
                       path |-> output_path, page |-> page])
               /\ i' = i + 1
               /\ UNCHANGED <<pc, err, dirs, removed, fieldnames, total_pages,
                              updated_csv, runs, snapshot>>
    /\ UNCHANGED <<envVars, mailVars>>

\* After the loop the updated CSV is written and its path returned.
WriteUpdatedCsv ==
    /\ pc = "g_loop"
    /\ i = Len(rows)
    /\ LET updated_csv_file ==
               OsPathJoin(platform, output_folder, UpdatedCsvName(document_type))
           key == FsKey(platform, updated_csv_file)
       IN /\ files' = FileWritten(files, key,
                 [kind |-> "csv", table |-> CsvWrite(fieldnames, rows)])
          /\ writes' = Append(writes, key)
          /\ updated_csv' = updated_csv_file
          /\ snapshot' = IF runs = 1 THEN files' ELSE snapshot
    /\ pc' = "idle"
    /\ UNCHANGED <<envVars, dirs, removed, err, rows, fieldnames, total_pages, i,
                   runs, created, mailVars>>

\* ------------------------------------------------------------- environment
\* Once, between two calls on the EmailSender, somebody deletes one of the
\* output documents.
RemoveFile ==
    /\ pc = "idle"
    /\ loaded
    /\ ~removed
    /\ \E key \in DOMAIN files :
          /\ files[key].kind = "pdf"
          /\ files' = [k \in DOMAIN files \ {key} |-> files[k]]
    /\ removed' = TRUE
    /\ UNCHANGED <<envVars, dirs, pc, err, genVars, mailVars>>

\* ------------------------------------------------------------- EmailSender
\* EmailSender.__init__ on the path generate_Documents returned: the table is
\* read and the File Path column normalised.
LoadTable ==
    /\ pc = "idle"
    /\ ~loaded
    /\ updated_csv # <<>>
    /\ FsKey(platform, updated_csv) \in DOMAIN files
    /\ LET table == CsvRead(files[FsKey(platform, updated_csv)].table)
       IN data' = [k \in DOMAIN table |->
                     [table[k] EXCEPT !["File Path"] = NormalizePath(@)]]
    /\ loaded' = TRUE
    /\ UNCHANGED <<envVars, fsVars, pc, err, genVars, method, sample_size,
                   selected, j, mail, outbox, callStart>>

\* The main section calls create_drafts at most once, before send_emails.
\* create_drafts(sample_size) starts: the rows to iterate are the sample when
\* sample_size is truthy (ValueError from pandas when it exceeds the table),
\* else the whole table.
CreateDraftsStart ==
    /\ pc = "idle"
    /\ loaded
    /\ method = "none"
    /\ \E a \in SampleSizes :
          /\ sample_size' = a
          /\ IF Truthy(a) /\ a[1] > Len(data)
             THEN /\ pc' = "raised"
                  /\ err' = "ValueError: sample larger than population"
                  /\ selected' = <<>>
             ELSE /\ pc' = "m_loop"
                  /\ err' = err
                  /\ selected' \in (IF Truthy(a) THEN Samples(Len(data), a[1])
                                    ELSE {AllRows(Len(data))})
    /\ method' = "create_drafts"
    /\ j' = 0
    /\ callStart' = Len(outbox)
    /\ UNCHANGED <<envVars, fsVars, genVars, loaded, data, mail, outbox>>

\* send_emails() starts, once, as the last call of the main section: it
\* iterates the whole table.
SendEmailsStart ==
    /\ pc = "idle"
    /\ loaded
    /\ method # "send_emails"
    /\ method' = "send_emails"
    /\ sample_size' = None
    /\ selected' = AllRows(Len(data))
    /\ j' = 0
    /\ callStart' = Len(outbox)
    /\ pc' = "m_loop"
    /\ UNCHANGED <<envVars, fsVars, err, genVars, loaded, data, mail, outbox>>

\* The row the running loop is at.
CurrentRow == data[selected[j + 1]]

mailStepUnchanged == <<envVars, fsVars, genVars, loaded, data, method,
                       sample_size, selected, j, outbox, callStart>>

\* mail = outlook.CreateItem(0)
CreateItem ==
    /\ pc = "m_loop"
    /\ j < Len(selected)
    /\ mail' = BlankItem
    /\ pc' = "m_to"
    /\ UNCHANGED <<mailStepUnchanged, err>>

\* mail.To = row['Mentor_Email']
SetTo ==
    /\ pc = "m_to"
    /\ mail' = [mail EXCEPT !.To = CurrentRow["Mentor_Email"]]
    /\ pc' = "m_subject"
    /\ UNCHANGED <<mailStepUnchanged, err>>

\* mail.Subject = self.email_subject
SetSubject ==
    /\ pc = "m_subject"
    /\ mail' = [mail EXCEPT !.Subject = email_subject]
    /\ pc' = "m_body"
    /\ UNCHANGED <<mailStepUnchanged, err>>

\* mail.Body = self.email_body_template.format(...)
SetBody ==
    /\ pc = "m_body"
    /\ mail' = [mail EXCEPT !.Body = Format(email_body_template, FormatArgs(CurrentRow))]
    /\ pc' = "m_attach"
    /\ UNCHANGED <<mailStepUnchanged, err>>

\* mail.Attachments.Add(os.path.abspath(row['File Path'])): Outlook raises when
\* the file does not exist, and nothing catches it.
AddAttachment ==
    /\ pc = "m_attach"
    /\ UNCHANGED <<envVars, fsVars, genVars, loaded, data, method, sample_size,
                   selected, callStart>>
    /\ LET filepath == Abspath(platform, CurrentRow["File Path"])
       IN IF FsKey(platform, filepath) \in DOMAIN files
          THEN /\ mail' = Attached(mail, filepath)
               /\ pc' = "m_dispatch"
               /\ err' = err
               /\ UNCHANGED <<j, outbox>>
          ELSE /\ mail' = mail
               /\ pc' = AfterAttachFailure(j).pc
               /\ j' = AfterAttachFailure(j).j
               /\ err' = "AttachmentNotFound"
               /\ UNCHANGED <<outbox>>

\* mail.Save() in create_drafts
Save ==
    /\ pc = "m_dispatch"
    /\ method = "create_drafts"
    /\ outbox' = Append(outbox, [op |-> "Save", row |-> selected[j + 1], item |-> mail])
    /\ j' = j + 1
    /\ mail' = NoMail
    /\ pc' = "m_loop"
    /\ UNCHANGED <<envVars, fsVars, err, genVars, loaded, data, method,
                   sample_size, selected, callStart>>

\* mail.Send() in send_emails
Send ==
    /\ pc = "m_dispatch"
    /\ method = "send_emails"
    /\ outbox' = Append(outbox, [op |-> "Send", row |-> selected[j + 1], item |-> mail])
    /\ j' = j + 1
    /\ mail' = NoMail
    /\ pc' = "m_loop"
    /\ UNCHANGED <<envVars, fsVars, err, genVars, loaded, data, method,
                   sample_size, selected, callStart>>

\* The loop is exhausted and the method returns.
Return ==
    /\ pc = "m_loop"
    /\ j = Len(selected)
    /\ pc' = "idle"
    /\ UNCHANGED <<envVars, fsVars, err, genVars, mailVars>>

\* The main section: generate_Documents once, then the EmailSender.
Next ==
    \/ EnsureFolder(1)
    \/ ReadInputs
    \/ CheckCounts
    \/ WritePage
    \/ WriteUpdatedCsv
    \/ RemoveFile
    \/ LoadTable
    \/ CreateDraftsStart
    \/ SendEmailsStart
    \/ CreateItem
    \/ SetTo
    \/ SetSubject
    \/ SetBody
    \/ AddAttachment
    \/ Save
    \/ Send
    \/ Return

Spec == Init /\ [][Next]_vars

\* generate_Documents called again and again with the same arguments.
RerunNext ==
    \/ EnsureFolder(MaxRuns)
    \/ ReadInputs
    \/ CheckCounts
    \/ WritePage
    \/ WriteUpdatedCsv

RerunSpec == Init /\ [][RerunNext]_vars

\* ------------------------------------------------------------- properties
\* What the running (or last) EmailSender call has saved or sent.
CallLog == SubSeq(outbox, callStart + 1, Len(outbox))

\* The output documents in the file system.
PdfKeys == {k \in DOMAIN files : files[k].kind = "pdf"}

\* generate_Documents has returned and nobody has deleted a document since.
SplitCompleted == pc = "idle" /\ runs >= 1 /\ ~removed

\* The table in the updated CSV file, as written.
WrittenTable == files[FsKey(platform, updated_csv)].table

FilePathColumn == Len(InputFields) + 1

\* The text after the last separator of a path.
RECURSIVE FileNameOf(_, _)
FileNameOf(pf, p) ==
    IF p = <<>> \/ p[Len(p)] \in Seps(pf) THEN <<>>
    ELSE FileNameOf(pf, SubSeq(p, 1, Len(p) - 1)) \o <<p[Len(p)]>>

\* The body the template of the main section renders to for a row.
ExpectedBody(row) ==
    <<"Dear ">> \o row["Mentor_Name"] \o <<", division ">> \o row["Division"]
        \o <<" -- ">> \o sender_name \o sender_title \o organisation

\* C1: a table whose row count differs from the page count makes
\* generate_Documents raise the count-mismatch ValueError, and when it is
\* raised the call has written no file: no output document and no updated
\* table exist (only the output folder has been created).
C1_MismatchFailsBeforeAnyWrite ==
    /\ (Len(csv_in) # Len(pdf_in) /\ runs >= 1 /\ pc \notin {"g_read", "g_check"})
          => (pc = "raised" /\ err = "ValueError: count mismatch")
    /\ err = "ValueError: count mismatch"
          => (Len(csv_in) # Len(pdf_in) /\ writes = <<>> /\ DOMAIN files = {}
              /\ updated_csv = <<>>)

C1_Witness ==
    /\ err = "ValueError: count mismatch"
    /\ Len(csv_in) = 2
    /\ Len(pdf_in) = 1
    /\ dirs # {}

\* C2: after a completed split of N rows and N pages the folder holds exactly
\* N single-page output documents and the updated table has N rows whose File
\* Path is non-empty and names a file that exists.
C2_ExactlyNOutputs ==
    SplitCompleted =>
        /\ Cardinality(PdfKeys) = Len(csv_in)
        /\ \A k \in PdfKeys : Len(files[k].pages) = 1
        /\ Len(WrittenTable.lines) = Len(csv_in)
        /\ \A n \in DOMAIN WrittenTable.lines :
              /\ WrittenTable.lines[n][FilePathColumn] # <<>>
              /\ FsKey(platform, WrittenTable.lines[n][FilePathColumn]) \in PdfKeys

\* C3: create_drafts(sample_size = k) with k at most the row count, once it
\* has returned, has saved exactly k drafts, each of a distinct row, and has
\* sent nothing.
C3_ExactlyKDrafts ==
    (pc = "idle" /\ method = "create_drafts" /\ sample_size # None
        /\ sample_size[1] <= Len(data))
    => /\ Len(CallLog) = sample_size[1]
       /\ \A n \in DOMAIN CallLog : CallLog[n].op = "Save"
       /\ \A a, b \in DOMAIN CallLog : a # b => CallLog[a].row # CallLog[b].row

\* C4: send_emails, when it returns (no row failed), has sent exactly one
\* message per row of the table, in table order, each with the template
\* rendered from that row's Mentor_Name and Division and the sender's name,
\* title and organisation, and has saved no draft.
C4_OneSendPerRowInOrder ==
    (pc = "idle" /\ method = "send_emails")
    => /\ Len(CallLog) = Len(csv_in)
       /\ \A n \in DOMAIN CallLog :
             /\ CallLog[n].op = "Send"
             /\ CallLog[n].row = n
             /\ CallLog[n].item.Body = ExpectedBody(csv_in[n])

C4_Witness ==
    /\ pc = "idle"
    /\ method = "send_emails"
    /\ Len(CallLog) = 2
    /\ csv_in[1]["Mentor_Name"] # csv_in[2]["Mentor_Name"]

\* C5: a second (and later) run of generate_Documents with the same inputs
\* does not fail, writes again every file the first run left, and leaves the
\* same set of files (with the same contents) as the first run.
C5_RerunIdempotent ==
    /\ runs >= 2 => (pc # "raised" /\ err = "none")
    /\ (runs >= 2 /\ pc = "idle")
          => /\ DOMAIN files = DOMAIN snapshot
             /\ files = snapshot
             /\ Range(writes) = DOMAIN snapshot

C5_Witness ==
    /\ runs = 2
    /\ pc = "idle"
    /\ Len(csv_in) = 2
    /\ Cardinality(DOMAIN files) = 3

\* C6: the file name of every document written is the row's Team Name, "_",
\* the document type, ".pdf"; documents of rows with the same name have the
\* same file name, whatever their index and run.
C6_FileNameFromNameAndType ==
    /\ \A n \in DOMAIN created :
          FileNameOf(platform, created[n].path)
              = created[n].name \o <<"_">> \o document_type \o <<".pdf">>
    /\ \A a, b \in DOMAIN created :
          created[a].name = created[b].name
              => FileNameOf(platform, created[a].path) = FileNameOf(platform, created[b].path)

C6_Witness ==
    \E a, b \in DOMAIN created :
        /\ created[a].name = created[b].name
        /\ created[a].index # created[b].index
        /\ created[a].run # created[b].run

\* The last row that has the Team Name of row n.
LastWithNameOf(n) ==
    CHOOSE m \in DOMAIN csv_in :
        /\ csv_in[m]["Team Name"] = csv_in[n]["Team Name"]
        /\ \A m2 \in DOMAIN csv_in :
              csv_in[m2]["Team Name"] = csv_in[n]["Team Name"] => m2 <= m

\* C7: the documents are written in table order, the one of row i (0-based)
\* from page i under row i's name; after the run the file a row's File Path
\* names holds the page of the last row with that Team Name, and rows with
\* the same Team Name have the same File Path.
C7_PositionalPairingLastWins ==
    /\ \A n \in DOMAIN created :
          LET c == created[n]
          IN /\ c.index = (n - 1) % Len(csv_in)
             /\ c.name = csv_in[c.index + 1]["Team Name"]
             /\ c.page = pdf_in[c.index + 1]
    /\ SplitCompleted =>
          \A n \in DOMAIN WrittenTable.lines :
              LET path == WrittenTable.lines[n][FilePathColumn]
              IN /\ files[FsKey(platform, path)].pages = <<pdf_in[LastWithNameOf(n)]>>
                 /\ path = WrittenTable.lines[LastWithNameOf(n)][FilePathColumn]

C7_Witness ==
    /\ SplitCompleted
    /\ Len(csv_in) = 2
    /\ csv_in[1]["Team Name"] = csv_in[2]["Team Name"]
    /\ csv_in[1] # csv_in[2]

\* C8: when the attachment of the k-th processed row cannot be added, the
\* exception ends the method: the messages of the k-1 rows before it are in
\* Outlook, in order, none is there for row k, and no later row is processed.
C8_FailureStopsLoopNoRollback ==
    err = "AttachmentNotFound"
    => /\ pc = "raised"
       /\ j < Len(selected)
       /\ Len(CallLog) = j
       /\ \A n \in 1..j :
             /\ CallLog[n].row = selected[n]
             /\ CallLog[n].op = (IF method = "create_drafts" THEN "Save" ELSE "Send")
       /\ \A n \in DOMAIN CallLog : CallLog[n].row # selected[j + 1]

C8_Witness ==
    /\ err = "AttachmentNotFound"
    /\ j >= 1
    /\ Len(selected) >= 2

\* C9 as stated: the updated table has the input's rows and columns plus File
\* Path, and no File Path in it contains a backslash separator.
C9_WrittenPathsForwardSlash ==
    updated_csv # <<>> =>
        /\ WrittenTable.header = InputFields \o <<"File Path">>
        /\ \A n \in DOMAIN WrittenTable.lines :
              LET path == WrittenTable.lines[n][FilePathColumn]
              IN \A k \in DOMAIN path :
                    ~(path[k] = BACKSLASH /\ path[k] \in Seps(platform))

\* C9 amended: the updated table has the input's rows and columns plus File
\* Path; the stored File Path is the output_folder argument as given, the
\* platform's separator (unless the folder ends with one) and the file name;
\* only the table an EmailSender has loaded has every backslash of File Path
\* replaced by "/".
C9_PathsNormalizedOnLoadOnly ==
    /\ updated_csv # <<>> =>
          /\ WrittenTable.header = InputFields \o <<"File Path">>
          /\ Len(WrittenTable.lines) = Len(csv_in)
          /\ \A n \in DOMAIN WrittenTable.lines :
                LET line == WrittenTable.lines[n]
                    path == line[FilePathColumn]
                    fname == csv_in[n]["Team Name"] \o <<"_">> \o document_type \o <<".pdf">>
                IN /\ \A c \in DOMAIN InputFields : line[c] = csv_in[n][InputFields[c]]
                   /\ path \in {output_folder \o fname,
                                output_folder \o <<OsSep(platform)>> \o fname}
    /\ loaded =>
          /\ Len(data) = Len(csv_in)
          /\ \A n \in DOMAIN data :
                LET path == WrittenTable.lines[n][FilePathColumn]
                IN /\ BACKSLASH \notin Range(data[n]["File Path"])
                   /\ data[n]["File Path"]
                        = [k \in DOMAIN path |-> IF path[k] = BACKSLASH THEN "/" ELSE path[k]]

C9_Witness ==
    /\ loaded
    /\ platform = "nt"
    /\ Len(data) = 2
    /\ BACKSLASH \in Range(WrittenTable.lines[1][FilePathColumn])

\* C10: the steps of a row run in the order create, recipient, subject, body,
\* attachment, Save or Send, one row at a time; every message saved or sent
\* carries the recipient, the subject, the rendered body and exactly one
\* attachment, the document of its own row.
C10_DispatchedMessagesComplete ==
    /\ \A n \in DOMAIN outbox :
          LET e == outbox[n]
          IN /\ e.item.To = data[e.row]["Mentor_Email"]
             /\ e.item.Subject = email_subject
             /\ e.item.Body = ExpectedBody(data[e.row])
             /\ e.item.Attachments = <<Abspath(platform, data[e.row]["File Path"])>>
    /\ pc = "m_loop" => ~mail.open
    /\ pc = "m_to" => mail = BlankItem
    /\ pc = "m_subject" => (mail.To # <<>> /\ mail.Subject = <<>>)
    /\ pc = "m_body" => (mail.Subject # <<>> /\ mail.Body = <<>>)
    /\ pc = "m_attach" => (mail.Body # <<>> /\ mail.Attachments = <<>>)
    /\ pc = "m_dispatch" => Len(mail.Attachments) = 1

C10_Witness ==
    /\ \E n \in DOMAIN outbox : outbox[n].op = "Save"
    /\ \E n \in DOMAIN outbox : outbox[n].op = "Send" /\ outbox[n].row = 2
====
